---------------------------- MODULE Spec2Model ----------------------------
(***************************************************************************)
(* Call-instrumentation adapter of the to-do application:                  *)
(*   - the attribute sanitizer (cleanAttributes, two variants),            *)
(*   - the promise wrappers instrumentCall / instrumentFirebaseCall and    *)
(*     their entry points (the proxy module, the logged* wrappers),        *)
(*   - the live-query wrapper loggedOnSnapshot.                            *)
(*                                                                         *)
(* JavaScript values are records [t, s, n]: t is the kind, s the text of a *)
(* string or the identity of an object/array, n the number of a number or  *)
(* boolean.  Objects are plain data objects (possibly unserializable);     *)
(* objects with behaviour of their own (toJSON methods, getters, proxies)  *)
(* are outside the value universe.                                         *)
(***************************************************************************)
EXTENDS Integers, Sequences, FiniteSets, TLC

VARIABLES san, calls, now, subs, trace

vars == <<san, calls, now, subs, trace>>

-----------------------------------------------------------------------------
(* JavaScript values *)

Null == [t |-> "null", s |-> "", n |-> 0]

Undef == [t |-> "undefined", s |-> "", n |-> 0]

Str(x) == [t |-> "string", s |-> x, n |-> 0]

Num(k) == [t |-> "number", s |-> "", n |-> k]

Bool(b) == [t |-> "boolean", s |-> "", n |-> IF b THEN 1 ELSE 0]

Obj(id) == [t |-> "object", s |-> id, n |-> 0]

Arr(id) == [t |-> "array", s |-> id, n |-> 0]

\* an Error instance (error instanceof Error), by identity
Err(id) == [t |-> "error", s |-> id, n |-> 0]

\* typeof value
TypeOf(v) == IF v.t \in {"null", "array", "error"} THEN "object" ELSE v.t

\* Array.isArray(value)
IsArray(v) == v.t = "array"

\* truthiness of a value, as in `x ? a : b` and `x || y`
Truthy(v) ==
    CASE v.t \in {"null", "undefined"} -> FALSE
      [] v.t = "string" -> v.s # ""
      [] v.t \in {"number", "boolean"} -> v.n # 0
      [] OTHER -> TRUE

\* The objects and arrays of the model, by identity, with their JSON text.
\* "ref" holds a reference cycle (a document reference): JSON.stringify throws.
ObjectText ==
    [ milk  |-> "{\"nome\":\"buy milk\"}",
      doc42 |-> "{\"id\":\"42\"}",
      list  |-> "[1,2]" ]

Unserializable == {"ref"}

\* e.message of the TypeError JSON.stringify throws on a value, as the
\* JavaScript engine words it for that value: for "ref", an object whose
\* property self is the object itself
StringifyErrorMessage(v) ==
    CASE v.s = "ref" ->
           "Converting circular structure to JSON\n    --> starting at object with constructor 'Object'\n    --- property 'self' closes the circle"
      [] OTHER -> "Converting circular structure to JSON"

RECURSIVE NatText(_)
NatText(k) ==
    IF k < 10
    THEN CASE k = 0 -> "0" [] k = 1 -> "1" [] k = 2 -> "2" [] k = 3 -> "3"
           [] k = 4 -> "4" [] k = 5 -> "5" [] k = 6 -> "6" [] k = 7 -> "7"
           [] k = 8 -> "8" [] OTHER -> "9"
    ELSE NatText(k \div 10) \o NatText(k % 10)

NumText(k) == IF k < 0 THEN "-" \o NatText(0 - k) ELSE NatText(k)

\* JSON.stringify(v) throws
StringifyThrows(v) == v.t \in {"object", "array"} /\ v.s \in Unserializable

\* JSON.stringify(v), for a v it does not throw on and that is not undefined
JSONstringify(v) ==
    CASE v.t = "null" -> Str("null")
      [] v.t = "string" -> Str("\"" \o v.s \o "\"")
      [] v.t = "number" -> Str(NumText(v.n))
      [] v.t = "boolean" -> Str(IF v.n = 1 THEN "true" ELSE "false")
      [] OTHER -> Str(ObjectText[v.s])

\* `[Object unable to stringify: ${e.message}]`
Placeholder(v) == Str("[Object unable to stringify: " \o StringifyErrorMessage(v) \o "]")

\* { ...a, ...b }: the keys of both, b's values winning
Spread(a, b) ==
    [k \in DOMAIN a \cup DOMAIN b |-> IF k \in DOMAIN b THEN b[k] ELSE a[k]]

EmptyMap == [k \in {} |-> Null]

-----------------------------------------------------------------------------
(* The attribute sanitizer *)

\* mutant: every kept value is stored as it is
CleanValue_Raw(value) == value

\* the value stored for a kept key
CleanValue(value) ==
    IF TypeOf(value) = "object" /\ ~IsArray(value)
    THEN IF StringifyThrows(value) THEN Placeholder(value) ELSE JSONstringify(value)
    ELSE value

\* mutant: null-valued keys are kept
cleanAttributes_keepsNull(attributes) ==
    [key \in {k \in DOMAIN attributes : attributes[k] # Undef /\ k # "status"} |->
        IF attributes[key] = Null THEN Null ELSE CleanValue(attributes[key])]

\* cleanAttributes of the per-function wrappers: drops 'status' too
cleanAttributesFirebase(attributes) ==
    [key \in {k \in DOMAIN attributes :
                 attributes[k] # Null /\ attributes[k] # Undef /\ k # "status"} |->
        CleanValue(attributes[key])]

\* mutant: every kept value that is not a number is serialized, strings too
cleanAttributes_stringifiesAll(attributes) ==
    [key \in {k \in DOMAIN attributes : attributes[k] # Null /\ attributes[k] # Undef} |->
        IF attributes[key].t = "number" THEN attributes[key]
        ELSE IF StringifyThrows(attributes[key]) THEN Placeholder(attributes[key])
        ELSE JSONstringify(attributes[key])]

\* cleanAttributes of the generic instrumenter: 'status' is an ordinary key
cleanAttributesInstrument(attributes) ==
    [key \in {k \in DOMAIN attributes : attributes[k] # Null /\ attributes[k] # Undef} |->
        CleanValue(attributes[key])]

cleanAttributes(variant, attributes) ==
    IF variant = "firebase" THEN cleanAttributesFirebase(attributes)
    ELSE cleanAttributesInstrument(attributes)

-----------------------------------------------------------------------------
(* Sanitizer runs: an attribute mapping is sanitized once and then again *)

SanKeys == {"status", "collectionName", "meta"}

SanValues ==
    { Null, Undef, Str("todos"), Str(""), Num(0), Num(7), Bool(FALSE),
      Obj("milk"), Obj("ref"), Arr("list") }

SanInputs == UNION { [D -> SanValues] : D \in SUBSET SanKeys }

\* no sanitizer run in this behaviour
SanIdle == [variant |-> "none", stage |-> "idle", input |-> EmptyMap,
            once |-> EmptyMap, twice |-> EmptyMap]

InitClean ==
    /\ san \in { [variant |-> v, stage |-> "input", input |-> m,
                  once |-> EmptyMap, twice |-> EmptyMap] :
                 v \in {"firebase", "instrument"}, m \in SanInputs }
    /\ calls = <<>>
    /\ now = 0
    /\ subs = <<>>
    /\ trace = <<>>

SanitizeOnce ==
    /\ san.stage = "input"
    /\ san' = [san EXCEPT !.stage = "once",
                          !.once = cleanAttributes(san.variant, san.input)]
    /\ UNCHANGED <<calls, now, subs, trace>>

SanitizeAgain ==
    /\ san.stage = "once"
    /\ san' = [san EXCEPT !.stage = "twice",
                          !.twice = cleanAttributes(san.variant, san.once)]
    /\ UNCHANGED <<calls, now, subs, trace>>

NextClean == SanitizeOnce \/ SanitizeAgain

SpecClean == InitClean /\ [][NextClean]_vars

IsAbsent(m, k) == k \notin DOMAIN m \/ m[k] \in {Null, Undef}

\* C8 as stated: in both sanitizers a key is kept iff its value is neither
\* null nor undefined, except 'status', which is never kept.
C8_AsStated ==
    san.stage \in {"once", "twice"} =>
        \A k \in SanKeys :
            (k \in DOMAIN san.once) <=> (~IsAbsent(san.input, k) /\ k # "status")

\* C8 (amended): a key is kept iff its value is neither null nor undefined;
\* 'status' is never kept by the sanitizer of the per-function wrappers, and
\* is an ordinary key for the sanitizer of the generic instrumenter.
C8_KeptKeys ==
    san.stage \in {"once", "twice"} =>
        \A k \in SanKeys :
            (k \in DOMAIN san.once) <=>
                (~IsAbsent(san.input, k) /\ (san.variant = "firebase" => k # "status"))

C8_Witness ==
    /\ san.stage = "once"
    /\ san.variant = "firebase"
    /\ DOMAIN san.input = SanKeys
    /\ san.input["status"] = Str("todos")
    /\ san.input["meta"] = Null
    /\ DOMAIN san.once = {"collectionName"}

\* C9: sanitizing a sanitized mapping changes nothing (both sanitizers); the
\* tags of the logged* wrappers, sanitized by the wrapper and again by
\* instrumentFirebaseCall, are the tags sanitized once.
C9_Idempotent == san.stage = "twice" => san.twice = san.once

C9_Witness ==
    /\ san.stage = "twice"
    /\ "meta" \in DOMAIN san.input
    /\ san.input["meta"] = Obj("milk")
    /\ san.twice["meta"] = Str(ObjectText["milk"])

IsPrimitive(value) == TypeOf(value) \in {"string", "number", "boolean"}

\* C16 as stated: every value of a sanitized mapping is a string, a number
\* or a boolean, whatever the input mapping holds.
C16_AsStated ==
    san.stage \in {"once", "twice"} =>
        \A k \in DOMAIN san.once : IsPrimitive(san.once[k])

\* C16 (amended): every value of a sanitized mapping is a string, a number,
\* a boolean, or an array of the input passed through unchanged; a plain
\* object never remains.
C16_FlatButArrays ==
    san.stage \in {"once", "twice"} =>
        \A k \in DOMAIN san.once :
            \/ IsPrimitive(san.once[k])
            \/ IsArray(san.once[k]) /\ san.once[k] = san.input[k]

C16_Witness ==
    /\ san.stage = "once"
    /\ DOMAIN san.input = SanKeys
    /\ san.input["meta"] = Obj("ref")
    /\ san.input["collectionName"] = Arr("list")
    /\ san.once["meta"] = Placeholder(Obj("ref"))
    /\ san.once["collectionName"] = Arr("list")

-----------------------------------------------------------------------------
(* Rejection values and their properties *)

\* The own properties of the objects a promise can reject with.
\*   fsDenied:    a FirestoreError (an Error instance with code, name, customData)
\*   plainDenied: the plain object {message, code}, not an Error instance
\*   boom:        new Error("boom"): no code
\*   plainZero:   the plain object {message, code: 0}: a code that is falsy
ObjectProps ==
    [ fsDenied    |-> [ message    |-> Str("Missing or insufficient permissions."),
                        stack      |-> Str("FirebaseError: Missing or insufficient permissions."),
                        code       |-> Str("permission-denied"),
                        name       |-> Str("FirebaseError"),
                        customData |-> Obj("doc42") ],
      plainDenied |-> [ message    |-> Str("permission-denied"),
                        code       |-> Str("permission-denied") ],
      boom        |-> [ message    |-> Str("boom"),
                        stack      |-> Str("Error: boom") ],
      plainZero   |-> [ message    |-> Str("cancelled"),
                        code       |-> Num(0) ] ]

\* the properties a for-in loop over the object visits (own and enumerable)
EnumerableProps(v) ==
    CASE v.s = "fsDenied" -> {"code", "name", "customData"}
      [] v.s \in {"plainDenied", "plainZero"} -> {"message", "code"}
      [] OTHER -> {}

\* v.p for an object v: undefined when v has no such property
Prop(v, p) ==
    IF v.s \in DOMAIN ObjectProps /\ p \in DOMAIN ObjectProps[v.s]
    THEN ObjectProps[v.s][p]
    ELSE Undef

\* `p in v`: v has the property p
HasProp(v, p) == v.s \in DOMAIN ObjectProps /\ p \in DOMAIN ObjectProps[v.s]

\* reading a property of null or undefined throws a TypeError
PropThrows(v) == v.t \in {"null", "undefined"}

\* the TypeError JSON.stringify throws, and the one a property read throws
StringifyError(v) == Err("TypeError: " \o StringifyErrorMessage(v))

PropError == Err("TypeError: Cannot read properties of null")

\* an exception the database client throws synchronously
ClientError == Err("FirebaseError: invalid argument")

-----------------------------------------------------------------------------
(* Events: what the logging client, the database client and the caller's   *)
(* callbacks see, in order                                                 *)

Event(kind, src, level, msg, attrs, val) ==
    [kind |-> kind, src |-> src, level |-> level, msg |-> msg, attrs |-> attrs, val |-> val]

\* DdLogs.info(msg, attrs) / DdLogs.error(msg, attrs), emitted by call or subscription src
LogInfo(src, msg, attrs) == Event("log", src, "info", msg, attrs, Undef)

LogError(src, msg, attrs) == Event("log", src, "error", msg, attrs, Undef)

\* the original database function fn is invoked with the arguments args
Invoke(src, fn, args) == Event("invoke", src, "", fn, args, Undef)

IsLog(e) == e.kind = "log"

\* the events of one call or subscription, in order
EventsOf(src) == SelectSeq(trace, LAMBDA e : e.src = src)

LogsOf(src) == SelectSeq(trace, LAMBDA e : e.src = src /\ IsLog(e))

\* Math.random().toString(36).substring(2, 10): some token
Ids == {"k3f9a2b1", "z8x0q4w7"}

-----------------------------------------------------------------------------
(* instrumentCall and instrumentFirebaseCall *)

\* instrumentCall: commonAttrs, the caller's sanitized tags spread last
InstrumentCommonAttrs(callId, operationName, tags) ==
    Spread([ callId        |-> Str(callId),
             operationName |-> Str(operationName),
             logType       |-> Str("instrumented_call") ],
           cleanAttributesInstrument(tags))

\* instrumentFirebaseCall: { ...commonAttrs, ...cleanedTags }
FirebaseCommonAttrs(callId, operationName, tags) ==
    Spread([ callId            |-> Str(callId),
             firebaseOperation |-> Str(operationName),
             logType           |-> Str("firebase_request") ],
           cleanAttributesFirebase(tags))

\* is the payload serialized?  instrumentCall: `context.payload ? ... : undefined`;
\* instrumentFirebaseCall: `payload !== null && payload !== undefined ? ... : undefined`
PayloadIsLogged(variant, payload) ==
    IF variant = "instrument" THEN Truthy(payload)
    ELSE payload # Null /\ payload # Undef

\* serializing the payload throws: JSON.stringify is called outside any try
PayloadThrows(variant, payload) ==
    PayloadIsLogged(variant, payload) /\ StringifyThrows(payload)

PayloadAttr(variant, payload) ==
    IF PayloadIsLogged(variant, payload) THEN JSONstringify(payload) ELSE Undef

CommonAttrs(variant, callId, operationName, tags) ==
    IF variant = "instrument" THEN InstrumentCommonAttrs(callId, operationName, tags)
    ELSE FirebaseCommonAttrs(callId, operationName, tags)

InitiatedAttrs(c) ==
    Spread(c.base, [payload |-> c.payloadAttr, callStatus |-> Str("initiated")])

\* mutant: the Success log is built from the most recent call's attributes
\* (one commonAttrs shared by all invocations)
SuccessAttrs_Shared(c, duration) ==
    Spread(calls[Len(calls)].base,
           [durationMs |-> Num(duration), callStatus |-> Str("success")])

\* mutant: the caller's tags are spread after the wrapper's own attributes
SuccessAttrs_TagsLast(c, duration) ==
    Spread([durationMs |-> Num(duration), callStatus |-> Str("success")], c.base)

SuccessAttrs(c, duration) ==
    Spread(c.base, [durationMs |-> Num(duration), callStatus |-> Str("success")])

\* errorContext[`error_${prop}`] for one enumerable own property of the error:
\* instrumentFirebaseCall serializes a nested object, instrumentCall copies it
ErrorPropValue(variant, value) ==
    IF variant = "firebase" /\ TypeOf(value) = "object" /\ ~IsArray(value)
    THEN IF StringifyThrows(value) THEN Placeholder(value) ELSE JSONstringify(value)
    ELSE value

\* the error_<prop> attributes: only for an Error instance
ErrorPropAttrs(variant, error) ==
    LET props == IF error.t = "error"
                 THEN EnumerableProps(error) \ {"stack", "message"}
                 ELSE {}
    IN  [k \in {"error_" \o p : p \in props} |->
            ErrorPropValue(variant,
                Prop(error, CHOOSE p \in props : "error_" \o p = k))]

\* (error as FirestoreError).code || 'unknown_code'
ErrorCode(error) ==
    IF Truthy(Prop(error, "code")) THEN Prop(error, "code") ELSE Str("unknown_code")

FailedAttrs(c, duration, error) ==
    Spread(Spread(c.base,
                  [ durationMs   |-> Num(duration),
                    callStatus   |-> Str("failed"),
                    errorMessage |-> Prop(error, "message"),
                    errorCode    |-> ErrorCode(error),
                    errorStack   |-> Prop(error, "stack"),
                    payload      |-> c.payloadAttr ]),
           ErrorPropAttrs(c.variant, error))

\* `return result`
ResolvedValue(result) == result

\* `throw error`
RethrownValue(error) == error

\* The instrumenter runs from its first line to its await.  pre: the events
\* of the entry point that came first.  A payload that cannot be serialized
\* makes the async function reject there, before any log.
Enter(api, variant, fn, operationName, payload, tags, callId, pre) ==
    LET i == Len(calls) + 1
        throws == PayloadThrows(variant, payload)
        c == [ api         |-> api,
               variant     |-> variant,
               fn          |-> fn,
               op          |-> operationName,
               callId      |-> callId,
               startTime   |-> now,
               payload     |-> payload,
               tags        |-> tags,
               payloadAttr |-> IF throws THEN Undef ELSE PayloadAttr(variant, payload),
               base        |-> CommonAttrs(variant, callId, operationName, tags),
               pc          |-> IF throws THEN "rejected" ELSE "awaiting",
               result      |-> IF throws THEN StringifyError(payload) ELSE Undef,
               promise     |-> "pending",
               pvalue      |-> Undef,
               settledAt   |-> 0,
               resumedAt   |-> 0 ]
    IN  /\ calls' = Append(calls, c)
        /\ trace' = trace \o pre \o
                    (IF throws THEN <<>>
                     ELSE <<LogInfo(i, operationName \o " - Initiated", InitiatedAttrs(c))>>)

\* The entry point ends before the instrumenter is reached: by a synchronous
\* exception (pc "threw") or, in an async function, by a rejection.
Abort(api, variant, fn, pc, error, pre) ==
    /\ calls' = Append(calls,
                       [ api |-> api, variant |-> variant, fn |-> fn, op |-> "",
                         callId |-> "", startTime |-> now, payload |-> Undef,
                         tags |-> EmptyMap, payloadAttr |-> Undef, base |-> EmptyMap, pc |-> pc,
                         result |-> error, promise |-> "none", pvalue |-> Undef,
                         settledAt |-> 0, resumedAt |-> 0 ])
    /\ trace' = trace \o pre

-----------------------------------------------------------------------------
(* Entry points: instrumentCall itself, the proxy module, the logged* wrappers *)

\* The arguments of a database function: the collection (of the query, the
\* collection reference or the document's parent; "" for a query that carries
\* no path), the document id, the data, and whether the document reference
\* has a parent (docRef.parent.id can be read).
Args(coll, doc, data, wellFormed) ==
    [coll |-> coll, doc |-> doc, data |-> data, wellFormed |-> wellFormed]

DataValues == {Obj("milk"), Obj("ref")}

ArgsOf(fn) ==
    CASE fn = "getDocs" -> {Args(c, "", Undef, TRUE) : c \in {"todos", ""}}
      [] fn = "addDoc" -> {Args("todos", "", d, TRUE) : d \in DataValues}
      [] fn = "updateDoc" ->
            {Args("todos", "d1", d, w) : d \in DataValues, w \in BOOLEAN}
      [] OTHER -> {Args("todos", "d1", Undef, w) : w \in BOOLEAN}

\* (query as any)._query?.path?.segments[0] || 'unknown'
CollectionName(args) == IF args.coll = "" THEN "unknown" ELSE args.coll

\* functionsToInstrument[propName](...args): { operationName, context }
functionsToInstrument ==
    [ getDocs   |-> [args \in ArgsOf("getDocs") |->
                        [ operationName |-> "Firestore: Get Docs",
                          payload       |-> Undef,
                          tags          |-> [collectionName |-> Str(CollectionName(args))] ]],
      addDoc    |-> [args \in ArgsOf("addDoc") |->
                        [ operationName |-> "Firestore: Add Doc to " \o args.coll,
                          payload       |-> args.data,
                          tags          |-> [collectionName |-> Str(args.coll)] ]],
      updateDoc |-> [args \in ArgsOf("updateDoc") |->
                        [ operationName |-> "Firestore: Update Doc in " \o args.coll \o "/" \o args.doc,
                          payload       |-> args.data,
                          tags          |-> [collectionName |-> Str(args.coll),
                                             docId          |-> Str(args.doc)] ]],
      deleteDoc |-> [args \in ArgsOf("deleteDoc") |->
                        [ operationName |-> "Firestore: Delete Doc from " \o args.coll \o "/" \o args.doc,
                          payload       |-> Undef,
                          tags          |-> [collectionName |-> Str(args.coll),
                                             docId          |-> Str(args.doc)] ]] ]

\* reading docRef.parent.id of a reference without parent throws
NameThrows(fn, args) == fn \in {"updateDoc", "deleteDoc"} /\ ~args.wellFormed

\* the operation name, payload and tags the logged* wrapper of fn passes on
LoggedName(fn, args) ==
    CASE fn = "getDocs" -> "Firestore: Get Docs from " \o CollectionName(args)
      [] fn = "addDoc" -> "Firestore: Add Doc to " \o args.coll
      [] fn = "updateDoc" -> "Firestore: Update Doc in " \o args.coll \o "/" \o args.doc
      [] OTHER -> "Firestore: Delete Doc from " \o args.coll \o "/" \o args.doc

LoggedPayload(fn, args) == IF fn \in {"addDoc", "updateDoc"} THEN args.data ELSE Null

LoggedTags(fn, args, customTags) ==
    cleanAttributesFirebase(
        Spread(IF fn = "getDocs" THEN [collectionName |-> Str(CollectionName(args))]
               ELSE IF fn = "addDoc" THEN [collectionName |-> Str(args.coll)]
               ELSE [collectionName |-> Str(args.coll), docId |-> Str(args.doc)],
               customTags))

\* Tags a caller passes: none; ordinary ones with a null, an unserializable
\* object, the reserved key and an array; and ones named like the attributes
\* the wrappers set themselves.
PlainTags ==
    [ collectionName |-> Str("todos"), meta |-> Obj("ref"), status |-> Str("open"),
      user |-> Null, labels |-> Arr("list") ]

CollidingTags ==
    [ callId |-> Str("mine"), listenerId |-> Str("mine"), callStatus |-> Str("mine"),
      durationMs |-> Num(-1), payload |-> Str("mine"), documentCount |-> Num(99),
      errorMessage |-> Str("mine"), errorCode |-> Str("mine") ]

TagInputs == {EmptyMap, PlainTags, CollidingTags}

PayloadInputs == {Undef, Null, Obj("milk"), Obj("ref"), Num(0), Str("")}

ResolveValues == {Obj("doc42"), Undef}

RejectValues ==
    {Err("fsDenied"), Obj("plainDenied"), Err("boom"), Obj("plainZero"), Null, Undef}

InstrumentedNames == {"getDocs", "addDoc", "updateDoc", "deleteDoc"}

\* instrumentCall(operationName, callPromise, {payload, tags}) called directly
CallInstrumentCall(operationName, payload, tags, callId) ==
    /\ Enter("direct", "instrument", "", operationName, payload, tags, callId, <<>>)
    /\ UNCHANGED <<san, now, subs>>

\* The members the module takes from the proxy when it is loaded, in the
\* order of the destructuring; all of them are functions of the database client.
ModuleExports ==
    << "getDocs", "addDoc", "updateDoc", "deleteDoc", "collection", "doc", "onSnapshot" >>

\* typeof originalProp === 'function'
IsFunction(propName) == \E k \in DOMAIN ModuleExports : ModuleExports[k] = propName

\* mutant: every function of the module is wrapped, registered or not
ProxyGet_WrapsAll(propName) == IF IsFunction(propName) THEN "wrapper" ELSE "original"

\* the get trap of the proxy: a wrapping function for a registered function,
\* the original property otherwise
ProxyGet(propName) ==
    IF IsFunction(propName) /\ propName \in DOMAIN functionsToInstrument
    THEN "wrapper"
    ELSE "original"

\* the proxy's get trap answered propName with what
Get(propName, what) == Event("get", 0, "", propName, EmptyMap, Str(what))

\* the wrapping function of fn was called with args (its context-deriver runs)
Derive(src, fn, args) == Event("derive", src, "", fn, args, Undef)

Loaded == \E k \in DOMAIN trace : trace[k].kind = "get"

\* what the module exports under a name, once loaded
Exported(propName) ==
    (trace[CHOOSE k \in DOMAIN trace :
               trace[k].kind = "get" /\ trace[k].msg = propName]).val.s

\* `export const { getDocs, ..., onSnapshot } = instrumentedFirestore`
LoadModule ==
    /\ ~Loaded
    /\ calls = <<>>
    /\ trace' = trace \o
          [k \in DOMAIN ModuleExports |-> Get(ModuleExports[k], ProxyGet(ModuleExports[k]))]
    /\ UNCHANGED <<san, calls, now, subs>>

\* mutant: the original function is invoked before the context is derived
CallProxy_InvokesFirst(fn, args, clientThrows, callId) ==
    LET i == Len(calls) + 1
        d == functionsToInstrument[fn][args]
    IN  /\ Loaded
        /\ Exported(fn) = "wrapper"
        /\ IF clientThrows
           THEN Abort("proxy", "instrument", fn, "threw", ClientError,
                      <<Invoke(i, fn, args)>>)
           ELSE IF NameThrows(fn, args)
           THEN Abort("proxy", "instrument", fn, "threw", PropError,
                      <<Invoke(i, fn, args), Derive(i, fn, args)>>)
           ELSE Enter("proxy", "instrument", fn, d.operationName, d.payload, d.tags,
                      callId, <<Invoke(i, fn, args), Derive(i, fn, args)>>)
        /\ UNCHANGED <<san, now, subs>>

\* The function the module exports for a registered fn is called: the context
\* is derived, the original function is invoked, its promise goes to
\* instrumentCall.  The function is not async: an exception of the deriver or
\* of the original function is thrown to the caller.
CallProxy(fn, args, clientThrows, callId) ==
    LET i == Len(calls) + 1
        d == functionsToInstrument[fn][args]
    IN  /\ Loaded
        /\ Exported(fn) = "wrapper"
        /\ IF NameThrows(fn, args)
           THEN Abort("proxy", "instrument", fn, "threw", PropError,
                      <<Derive(i, fn, args)>>)
           ELSE IF clientThrows
           THEN Abort("proxy", "instrument", fn, "threw", ClientError,
                      <<Derive(i, fn, args), Invoke(i, fn, args)>>)
           ELSE Enter("proxy", "instrument", fn, d.operationName, d.payload, d.tags,
                      callId, <<Derive(i, fn, args), Invoke(i, fn, args)>>)
        /\ UNCHANGED <<san, now, subs>>

\* loggedGetDocs / loggedAddDoc / loggedUpdateDoc / loggedDeleteDoc: the name
\* is built, the database function is invoked, the tags are sanitized, and
\* instrumentFirebaseCall takes over.  The wrappers are async: an exception
\* becomes a rejection.
CallLogged(fn, args, customTags, clientThrows, callId) ==
    LET i == Len(calls) + 1
    IN  /\ IF NameThrows(fn, args)
           THEN Abort("logged", "firebase", fn, "rejected", PropError, <<>>)
           ELSE IF clientThrows
           THEN Abort("logged", "firebase", fn, "rejected", ClientError,
                      <<Invoke(i, fn, args)>>)
           ELSE Enter("logged", "firebase", fn, LoggedName(fn, args),
                      LoggedPayload(fn, args), LoggedTags(fn, args, customTags),
                      callId, <<Invoke(i, fn, args)>>)
        /\ UNCHANGED <<san, now, subs>>

\* The wrapped promise resolves with value.  The wrapper awaiting it goes on
\* in a later turn (AwaitReturns).
Resolve(i, value) ==
    /\ calls[i].promise = "pending"
    /\ calls' = [calls EXCEPT ![i].promise = "resolved", ![i].pvalue = value,
                              ![i].settledAt = now]
    /\ UNCHANGED <<san, now, subs, trace>>

\* The wrapped promise rejects with error.  The wrapper awaiting it goes on
\* in a later turn (AwaitThrows).
Reject(i, error) ==
    /\ calls[i].promise = "pending"
    /\ calls' = [calls EXCEPT ![i].promise = "rejected", ![i].pvalue = error,
                              ![i].settledAt = now]
    /\ UNCHANGED <<san, now, subs, trace>>

\* `await callPromise` returns: the duration is measured now, Success is
\* logged, the wrapper resolves with the result.
AwaitReturns(i) ==
    LET c == calls[i]
    IN  /\ c.pc = "awaiting"
        /\ c.promise = "resolved"
        /\ calls' = [calls EXCEPT ![i].pc = "resolved", ![i].resumedAt = now,
                                  ![i].result = ResolvedValue(c.pvalue)]
        /\ trace' = Append(trace,
               LogInfo(i, c.op \o " - Success", SuccessAttrs(c, now - c.startTime)))
        /\ UNCHANGED <<san, now, subs>>

\* `await callPromise` throws: the duration is measured now, the error
\* context is built (reading error.message: a TypeError for null and
\* undefined, which ends the wrapper), Failed is logged, the error rethrown.
AwaitThrows(i) ==
    LET c == calls[i]
        error == c.pvalue
    IN  /\ c.pc = "awaiting"
        /\ c.promise = "rejected"
        /\ IF PropThrows(error)
           THEN /\ calls' = [calls EXCEPT ![i].pc = "rejected", ![i].resumedAt = now,
                                          ![i].result = PropError]
                /\ UNCHANGED trace
           ELSE /\ calls' = [calls EXCEPT ![i].pc = "rejected", ![i].resumedAt = now,
                                          ![i].result = RethrownValue(error)]
                /\ trace' = Append(trace,
                       LogError(i, c.op \o " - Failed",
                                FailedAttrs(c, now - c.startTime, error)))
        /\ UNCHANGED <<san, now, subs>>

MaxTime == 2

\* performance.now() only moves forward
Tick ==
    /\ now < MaxTime
    /\ now' = now + 1
    /\ UNCHANGED <<san, calls, subs, trace>>

-----------------------------------------------------------------------------
(* One instrumented call, from any entry point, with any outcome *)

Init ==
    /\ san = SanIdle
    /\ calls = <<>>
    /\ now = 0
    /\ subs = <<>>
    /\ trace = <<>>

Next ==
    \/ /\ calls = <<>>
       /\ \E payload \in PayloadInputs, tags \in TagInputs, callId \in Ids :
             CallInstrumentCall("Add Doc", payload, tags, callId)
    \/ /\ calls = <<>>
       /\ \E fn \in InstrumentedNames, clientThrows \in BOOLEAN, callId \in Ids :
             \E args \in ArgsOf(fn) : CallProxy(fn, args, clientThrows, callId)
    \/ /\ calls = <<>>
       /\ \E fn \in InstrumentedNames, customTags \in TagInputs,
             clientThrows \in BOOLEAN, callId \in Ids :
             \E args \in ArgsOf(fn) : CallLogged(fn, args, customTags, clientThrows, callId)
    \/ \E i \in DOMAIN calls, value \in ResolveValues : Resolve(i, value)
    \/ \E i \in DOMAIN calls, error \in RejectValues : Reject(i, error)
    \/ \E i \in DOMAIN calls : AwaitReturns(i)
    \/ \E i \in DOMAIN calls : AwaitThrows(i)
    \/ Tick
    \/ LoadModule

Spec == Init /\ [][Next]_vars

-----------------------------------------------------------------------------
(* Claims about one instrumented call *)

\* the positions in the trace of the logs of call i whose message is its
\* operation name followed by the phase
LogPositions(i, phase) ==
    {k \in DOMAIN trace :
        /\ IsLog(trace[k])
        /\ trace[k].src = i
        /\ trace[k].msg = calls[i].op \o " - " \o phase}

TheLog(i, phase) == trace[CHOOSE k \in LogPositions(i, phase) : TRUE]

\* the call went through an instrumenter: its entry point did not end first
Instrumented(i) == calls[i].promise # "none"

\* the wrapper is not waiting for the wrapped promise (any more): it ended at
\* its entry or went on after the await
Finished(i) == calls[i].pc # "awaiting"

\* C1: a call whose wrapped promise rejected, with whatever value, has exactly
\* one Initiated and one Failed log with the same callId, the Failed log's
\* errorMessage is the rejection value's message, and the wrapper rejected
\* with that very value.
C1_AsStated ==
    \A i \in DOMAIN calls :
        (calls[i].promise = "rejected" /\ Finished(i)) =>
            /\ Cardinality(LogPositions(i, "Initiated")) = 1
            /\ Cardinality(LogPositions(i, "Failed")) = 1
            /\ TheLog(i, "Failed").level = "error"
            /\ TheLog(i, "Failed").attrs["callId"] = TheLog(i, "Initiated").attrs["callId"]
            /\ TheLog(i, "Failed").attrs["errorMessage"] = Prop(calls[i].pvalue, "message")
            /\ calls[i].pc = "rejected"
            /\ calls[i].result = calls[i].pvalue

\* C2: a call whose wrapped promise resolved has exactly one Initiated and
\* one Success log, in that order, no Failed log, the same callId in both,
\* and a Success duration that is not negative.
C2_AsStated ==
    \A i \in DOMAIN calls :
        (calls[i].promise = "resolved" /\ Finished(i)) =>
            /\ Cardinality(LogPositions(i, "Initiated")) = 1
            /\ Cardinality(LogPositions(i, "Success")) = 1
            /\ LogPositions(i, "Failed") = {}
            /\ \A a \in LogPositions(i, "Initiated"), b \in LogPositions(i, "Success") : a < b
            /\ TheLog(i, "Success").attrs["callId"] = TheLog(i, "Initiated").attrs["callId"]
            /\ TheLog(i, "Success").attrs["durationMs"].t = "number"
            /\ TheLog(i, "Success").attrs["durationMs"].n >= 0

\* C3: a payload or tag value that cannot be serialized never stops a call:
\* the Initiated log is emitted with the placeholder in its place, and the
\* wrapper settles as the wrapped promise does.
C3_AsStated ==
    \A i \in DOMAIN calls :
        Instrumented(i) =>
            /\ Cardinality(LogPositions(i, "Initiated")) = 1
            /\ StringifyThrows(calls[i].payload) =>
                   TheLog(i, "Initiated").attrs["payload"] = Placeholder(calls[i].payload)
            /\ \A k \in DOMAIN calls[i].tags :
                   (StringifyThrows(calls[i].tags[k]) /\ ~IsArray(calls[i].tags[k])) =>
                       TheLog(i, "Initiated").attrs[k] = Placeholder(calls[i].tags[k])
            /\ (calls[i].promise = "resolved" /\ Finished(i)) =>
                   calls[i].pc = "resolved" /\ calls[i].result = calls[i].pvalue
            /\ (calls[i].promise = "rejected" /\ Finished(i)
                   /\ ~PropThrows(calls[i].pvalue)) =>
                   calls[i].pc = "rejected" /\ calls[i].result = calls[i].pvalue

\* C10: a call whose wrapped promise resolved with a value resolves with
\* that value (direct calls, the proxy's functions, the logged* wrappers).
C10_AsStated ==
    \A i \in DOMAIN calls :
        (calls[i].promise = "resolved" /\ Finished(i)) =>
            calls[i].pc = "resolved" /\ calls[i].result = calls[i].pvalue

\* C11: in every Failed log errorCode is the rejection value's code when it
\* has a code field and 'unknown_code' exactly when it has none; a rejection
\* value without code still gets its Failed log.
C11_AsStated ==
    \A i \in DOMAIN calls :
        /\ \A k \in LogPositions(i, "Failed") :
              trace[k].attrs["errorCode"] =
                  IF HasProp(calls[i].pvalue, "code")
                  THEN Prop(calls[i].pvalue, "code")
                  ELSE Str("unknown_code")
        /\ (/\ calls[i].promise = "rejected"
            /\ Finished(i)
            /\ LogPositions(i, "Initiated") # {}
            /\ ~PropThrows(calls[i].pvalue)
            /\ ~HasProp(calls[i].pvalue, "code")) =>
                Cardinality(LogPositions(i, "Failed")) = 1

\* a nested object is not left as an object: it is serialized
Serialized(value) ==
    IF TypeOf(value) = "object" /\ ~IsArray(value)
    THEN IF StringifyThrows(value) THEN Placeholder(value) ELSE JSONstringify(value)
    ELSE value

\* C14: every Failed log carries, for every enumerable own property of the
\* rejection value other than message and stack, an attribute error_<prop>
\* holding the property's value, a nested object serialized; whether the
\* value is an Error instance or not, in both instrumenters.
C14_AsStated ==
    \A i \in DOMAIN calls :
        \A k \in LogPositions(i, "Failed") :
            \A p \in EnumerableProps(calls[i].pvalue) \ {"message", "stack"} :
                /\ ("error_" \o p) \in DOMAIN trace[k].attrs
                /\ trace[k].attrs["error_" \o p] = Serialized(Prop(calls[i].pvalue, p))

\* C15: the Initiated log carries the serialized payload whenever a payload
\* was supplied, a falsy one (0, '') included, and has no payload only when
\* none was supplied; the Failed log carries the same payload; in both
\* instrumenters.
C15_AsStated ==
    \A i \in DOMAIN calls :
        LET supplied == calls[i].payload # Undef /\ calls[i].payload # Null
        IN  /\ \A k \in LogPositions(i, "Initiated") \cup LogPositions(i, "Failed") :
                  trace[k].attrs["payload"] =
                      IF supplied THEN JSONstringify(calls[i].payload) ELSE Undef
            /\ (Instrumented(i) /\ supplied /\ ~StringifyThrows(calls[i].payload)) =>
                  LogPositions(i, "Initiated") # {}

\* C18: the Initiated, Success and Failed logs carry callStatus 'initiated',
\* 'success' and 'failed'; durationMs of a terminal log is the duration the
\* wrapper measures, from its start to the moment it goes on after the
\* await (never less than the time to the settlement of the promise); the
\* payload of the Initiated and Failed logs is the wrapper's own; tags
\* naming callStatus, durationMs or payload change none of these.
C18_OwnAttributes ==
    \A i \in DOMAIN calls :
        /\ \A k \in LogPositions(i, "Initiated") :
              /\ trace[k].attrs["callStatus"] = Str("initiated")
              /\ trace[k].attrs["payload"] = calls[i].payloadAttr
        /\ \A k \in LogPositions(i, "Success") :
              /\ trace[k].attrs["callStatus"] = Str("success")
              /\ trace[k].attrs["durationMs"] = Num(calls[i].resumedAt - calls[i].startTime)
              /\ calls[i].resumedAt >= calls[i].settledAt
        /\ \A k \in LogPositions(i, "Failed") :
              /\ trace[k].attrs["callStatus"] = Str("failed")
              /\ trace[k].attrs["durationMs"] = Num(calls[i].resumedAt - calls[i].startTime)
              /\ calls[i].resumedAt >= calls[i].settledAt
              /\ trace[k].attrs["payload"] = calls[i].payloadAttr

\* a call started at time 0 with tags naming callStatus, durationMs and
\* payload, whose promise resolved at time 1 and which went on at time 2
C18_Witness ==
    /\ Len(calls) = 1
    /\ calls[1].tags = CollidingTags
    /\ calls[1].payload = Obj("milk")
    /\ calls[1].startTime = 0
    /\ calls[1].settledAt = 1
    /\ calls[1].resumedAt = 2
    /\ LogPositions(1, "Success") # {}
    /\ TheLog(1, "Success").attrs["durationMs"] = Num(2)
    /\ TheLog(1, "Initiated").attrs["payload"] = Str(ObjectText["milk"])

\* the events of a kind of call i, as positions in the trace
CallPositions(i, kind) ==
    {k \in DOMAIN trace : trace[k].src = i /\ trace[k].kind = kind}

\* the arguments the wrapping function of proxy call i was called with
CalledWith(i) == trace[CHOOSE k \in CallPositions(i, "derive") : TRUE].attrs

ExportsAsRegistered ==
    Loaded =>
        \A k \in DOMAIN ModuleExports :
            LET name == ModuleExports[k]
            IN  /\ Exported(name) = "wrapper" <=> name \in InstrumentedNames
                /\ Exported(name) \in {"wrapper", "original"}

\* C12 as stated: the proxy answers with a wrapping function exactly for the
\* functions named in the registration table and with the original property
\* otherwise, and every invocation of a wrapping function invokes the
\* original function exactly once with the same arguments.
C12_AsStated ==
    /\ ExportsAsRegistered
    /\ \A i \in DOMAIN calls :
          calls[i].api = "proxy" =>
              /\ Cardinality(CallPositions(i, "invoke")) = 1
              /\ \A k \in CallPositions(i, "invoke") :
                    trace[k].msg = calls[i].fn /\ trace[k].attrs = CalledWith(i)

\* C12 (amended): wrapping as stated; an invocation of a wrapping function
\* invokes the original function with the same arguments exactly once when
\* the context-deriver returns, and not at all when the deriver throws.
C12_ProxyWraps ==
    /\ ExportsAsRegistered
    /\ \A i \in DOMAIN calls :
          calls[i].api = "proxy" =>
              /\ Cardinality(CallPositions(i, "invoke"))
                     = IF NameThrows(calls[i].fn, CalledWith(i)) THEN 0 ELSE 1
              /\ \A k \in CallPositions(i, "invoke") :
                    trace[k].msg = calls[i].fn /\ trace[k].attrs = CalledWith(i)

C12_Witness ==
    /\ Loaded
    /\ Exported("onSnapshot") = "original"
    /\ Len(calls) = 1
    /\ calls[1].api = "proxy"
    /\ calls[1].fn = "updateDoc"
    /\ calls[1].pc = "resolved"
    /\ Cardinality(CallPositions(1, "invoke")) = 1

\* all the logs of call i, as positions in the trace
AllLogPositions(i) == {k \in DOMAIN trace : IsLog(trace[k]) /\ trace[k].src = i}

\* C19: a call through the proxy's functions or the logged* wrappers has no
\* log before its database function was invoked; in the proxy's function the
\* context is derived before the database function is invoked; when the
\* derivation throws, the database function is not invoked and nothing is
\* logged; when the database function throws, nothing is logged and the
\* caller gets that exception.
C19_StartedBeforeLogged ==
    \A i \in DOMAIN calls :
        calls[i].api \in {"proxy", "logged"} =>
            /\ \A k \in AllLogPositions(i) :
                  \E v \in CallPositions(i, "invoke") : v < k
            /\ \A d \in CallPositions(i, "derive"), v \in CallPositions(i, "invoke") : d < v
            /\ calls[i].api = "proxy" => Cardinality(CallPositions(i, "derive")) = 1
            /\ (calls[i].promise = "none" /\ calls[i].result = PropError) =>
                  /\ CallPositions(i, "invoke") = {}
                  /\ AllLogPositions(i) = {}
            /\ (calls[i].promise = "none" /\ CallPositions(i, "invoke") # {}) =>
                  /\ AllLogPositions(i) = {}
                  /\ calls[i].result = ClientError
                  /\ calls[i].pc = IF calls[i].api = "proxy" THEN "threw" ELSE "rejected"

\* a call of the proxy's updateDoc: derived, invoked, logged, in that order
C19_Witness ==
    /\ Len(calls) = 1
    /\ calls[1].api = "proxy"
    /\ calls[1].fn = "updateDoc"
    /\ calls[1].pc = "awaiting"
    /\ Len(trace) = Len(ModuleExports) + 3
    /\ trace[Len(trace) - 2].kind = "derive"
    /\ trace[Len(trace) - 1].kind = "invoke"
    /\ trace[Len(trace)].msg = calls[1].op \o " - Initiated"

-----------------------------------------------------------------------------
(* loggedOnSnapshot *)

\* a query snapshot with count documents (snapshot.docs.length = count)
Snapshot(count) == [t |-> "snapshot", s |-> "", n |-> count]

\* events of subscription j carry the source -j, those of call i the source i
SubSrc(j) == 0 - j

\* a callback of the caller (onNext, onError) is invoked with val, or the
\* database client is asked to subscribe or to unsubscribe
Callback(j, kind, val) == Event(kind, SubSrc(j), "", "", EmptyMap, val)

ListenerInitiatedMsg(sub) == "Firestore: Snapshot listener for " \o sub.coll \o " initiated"

ListenerDataMsg(sub) == "Firestore: Snapshot data received for " \o sub.coll

ListenerErrorMsg(sub) == "Firestore: Snapshot listener error for " \o sub.coll

ListenerUnsubscribedMsg(sub) ==
    "Firestore: Snapshot listener for " \o sub.coll \o " unsubscribed"

\* attributes of the four logs: the caller's sanitized tags are spread last
ListenerAttrs(sub, firebaseOperation) ==
    [ listenerId        |-> Str(sub.uniqueId),
      firebaseOperation |-> Str(firebaseOperation),
      collectionName    |-> Str(sub.coll) ]

ListenerDataAttrs(sub, snapshot) ==
    Spread(Spread(ListenerAttrs(sub, "onSnapshot_data"),
                  [documentCount |-> Num(snapshot.n)]),
           sub.tags)

ListenerErrorAttrs(sub, error) ==
    Spread(Spread(Spread(ListenerAttrs(sub, "onSnapshot_error"),
                         [ errorMessage |-> Prop(error, "message"),
                           errorCode    |-> ErrorCode(error),
                           errorStack   |-> Prop(error, "stack") ]),
                  sub.tags),
           ErrorPropAttrs("firebase", error))

\* mutant: the batch is forwarded without a log
OnData_Silent(sub, j, snapshot) == << Callback(j, "onNext", snapshot) >>

\* the data callback given to onSnapshot: log, then the caller's onNext
OnData(sub, j, snapshot) ==
    << LogInfo(SubSrc(j), ListenerDataMsg(sub), ListenerDataAttrs(sub, snapshot)),
       Callback(j, "onNext", snapshot) >>

\* the error callback given to onSnapshot: log, then the caller's onError if any
OnError(sub, j, error) ==
    << LogError(SubSrc(j), ListenerErrorMsg(sub), ListenerErrorAttrs(sub, error)) >>
    \o (IF sub.hasOnError THEN << Callback(j, "onError", error) >> ELSE << >>)

\* mutant: the handle logs and leaves the listener registered
Unsubscribe_LogOnly(sub, j) ==
    << LogInfo(SubSrc(j), ListenerUnsubscribedMsg(sub),
               Spread(ListenerAttrs(sub, "onSnapshot_listener_end"), sub.tags)) >>

\* the handle loggedOnSnapshot returns: unsubscribe(), then the log
Unsubscribe(sub, j) ==
    << Callback(j, "unsubscribe", Undef),
       LogInfo(SubSrc(j), ListenerUnsubscribedMsg(sub),
               Spread(ListenerAttrs(sub, "onSnapshot_listener_end"), sub.tags)) >>

\* loggedOnSnapshot(query, onNext, onError?, options, customTags): the
\* initiated log, then onSnapshot registers the two callbacks.
loggedOnSnapshot(coll, hasOnError, customTags, uniqueId) ==
    LET j == Len(subs) + 1
        sub == [ coll       |-> IF coll = "" THEN "unknown" ELSE coll,
                 uniqueId   |-> uniqueId,
                 tags       |-> cleanAttributesFirebase(customTags),
                 hasOnError |-> hasOnError,
                 live       |-> TRUE,
                 inputs     |-> << >> ]
    IN  /\ subs' = Append(subs, sub)
        /\ trace' = trace \o
              << LogInfo(SubSrc(j), ListenerInitiatedMsg(sub),
                         Spread(ListenerAttrs(sub, "onSnapshot_listener_start"), sub.tags)),
                 Callback(j, "subscribe", Undef) >>
        /\ UNCHANGED <<san, calls, now>>

MaxEvents == 3

MaxDocs == 3

\* what the environment did to a subscription: a batch, an error, a cancel
Input(kind, val) == [kind |-> kind, val |-> val]

\* The database client delivers a batch to a registered listener.
DeliverData(j, snapshot) ==
    /\ subs[j].live
    /\ Len(subs[j].inputs) < MaxEvents
    /\ subs' = [subs EXCEPT ![j].inputs = Append(@, Input("data", snapshot))]
    /\ trace' = trace \o OnData(subs[j], j, snapshot)
    /\ UNCHANGED <<san, calls, now>>

\* The database client reports an error to a registered listener.
DeliverError(j, error) ==
    /\ subs[j].live
    /\ Len(subs[j].inputs) < MaxEvents
    /\ subs' = [subs EXCEPT ![j].inputs = Append(@, Input("error", error))]
    /\ trace' = trace \o OnError(subs[j], j, error)
    /\ UNCHANGED <<san, calls, now>>

\* The owner invokes the cancellation handle (again, if it likes); the
\* database client delivers nothing to a listener it has unregistered.
Cancel(j) ==
    LET events == Unsubscribe(subs[j], j)
    IN  /\ Len(subs[j].inputs) < MaxEvents
        /\ subs' = [subs EXCEPT
                       ![j].inputs = Append(@, Input("cancel", Undef)),
                       ![j].live = @ /\ \A k \in DOMAIN events : events[k].kind # "unsubscribe"]
        /\ trace' = trace \o events
        /\ UNCHANGED <<san, calls, now>>

ListenerErrors == {Err("fsDenied"), Err("boom")}

NextSub ==
    \/ /\ subs = <<>>
       /\ \E coll \in {"todos", ""}, hasOnError \in BOOLEAN,
             customTags \in TagInputs, uniqueId \in Ids :
             loggedOnSnapshot(coll, hasOnError, customTags, uniqueId)
    \/ \E j \in DOMAIN subs, count \in 0..MaxDocs : DeliverData(j, Snapshot(count))
    \/ \E j \in DOMAIN subs, error \in ListenerErrors : DeliverError(j, error)
    \/ \E j \in DOMAIN subs : Cancel(j)

SpecSub == Init /\ [][NextSub]_vars

-----------------------------------------------------------------------------
(* Claims about one subscription *)

SubLogs(j) == LogsOf(SubSrc(j))

InputsOf(j, kind) == SelectSeq(subs[j].inputs, LAMBDA x : x.kind = kind)

\* the positions in the trace of the events of subscription j of a kind,
\* and of its logs with a message
EventPositions(j, kind) ==
    {k \in DOMAIN trace : trace[k].src = SubSrc(j) /\ trace[k].kind = kind}

SubLogPositions(j, msg) ==
    {k \in EventPositions(j, "log") : trace[k].msg = msg}

\* the listenerId a subscription logs under: that of its initiated log
LoggedListenerId(j) == SubLogs(j)[1].attrs["listenerId"]

\* C4: a subscription that received n batches and was then cancelled once
\* has n + 2 logs: initiated, one data received per batch, unsubscribed, all
\* with the same listenerId.
C4_LogsOfCancelled ==
    \A j \in DOMAIN subs :
        LET inputs == subs[j].inputs
            L == SubLogs(j)
        IN  (/\ inputs # << >>
             /\ inputs[Len(inputs)].kind = "cancel"
             /\ \A k \in 1..(Len(inputs) - 1) : inputs[k].kind = "data") =>
                /\ Len(L) = (Len(inputs) - 1) + 2
                /\ L[1].msg = ListenerInitiatedMsg(subs[j])
                /\ L[Len(L)].msg = ListenerUnsubscribedMsg(subs[j])
                /\ \A k \in 2..(Len(L) - 1) : L[k].msg = ListenerDataMsg(subs[j])
                /\ \A k \in DOMAIN L : L[k].attrs["listenerId"] = L[1].attrs["listenerId"]

\* one batch of three documents, then the cancel: three logs
C4_Witness ==
    /\ Len(subs) = 1
    /\ subs[1].inputs = << Input("data", Snapshot(3)), Input("cancel", Undef) >>
    /\ Len(SubLogs(1)) = 3
    /\ SubLogs(1)[2].attrs["documentCount"] = Num(3)

\* C5: every batch delivered gets exactly one data received log whose
\* documentCount is the number of documents of the batch, whatever the
\* caller's tags, and the log comes right before the caller's onNext.
C5_AsStated ==
    \A j \in DOMAIN subs :
        /\ Cardinality(SubLogPositions(j, ListenerDataMsg(subs[j])))
               = Len(InputsOf(j, "data"))
        /\ \A k \in EventPositions(j, "onNext") :
              /\ k - 1 \in SubLogPositions(j, ListenerDataMsg(subs[j]))
              /\ trace[k - 1].attrs["documentCount"] = Num(trace[k].val.n)

\* C6: every error reported gets exactly one error-level listener error log
\* with the listenerId, the error's message and its code (or 'unknown_code'),
\* followed by the caller's onError with that error if there is one, and by
\* nothing otherwise; the query is subscribed to once only.
C6_AsStated ==
    \A j \in DOMAIN subs :
        LET errors == InputsOf(j, "error")
            EL == SelectSeq(SubLogs(j), LAMBDA e : e.msg = ListenerErrorMsg(subs[j]))
            forwarded == SelectSeq(EventsOf(SubSrc(j)), LAMBDA e : e.kind = "onError")
        IN  /\ Len(EL) = Len(errors)
            /\ \A k \in DOMAIN EL :
                  /\ EL[k].level = "error"
                  /\ EL[k].attrs["listenerId"] = LoggedListenerId(j)
                  /\ EL[k].attrs["errorMessage"] = Prop(errors[k].val, "message")
                  /\ EL[k].attrs["errorCode"] = ErrorCode(errors[k].val)
            /\ Len(forwarded) = IF subs[j].hasOnError THEN Len(errors) ELSE 0
            /\ \A k \in DOMAIN forwarded : forwarded[k].val = errors[k].val
            /\ \A k \in EventPositions(j, "onError") :
                  k - 1 \in SubLogPositions(j, ListenerErrorMsg(subs[j]))
            /\ Cardinality(EventPositions(j, "subscribe")) = 1

\* C7: each invocation of the handle unsubscribes the query and then emits
\* one unsubscribed log with the listenerId the subscription logs under; a
\* subscription that was not cancelled has no unsubscribed log.
C7_Cancellation ==
    \A j \in DOMAIN subs :
        LET U == SubLogPositions(j, ListenerUnsubscribedMsg(subs[j]))
        IN  /\ Cardinality(U) = Len(InputsOf(j, "cancel"))
            /\ Cardinality(EventPositions(j, "unsubscribe")) = Len(InputsOf(j, "cancel"))
            /\ \A k \in U :
                  /\ k - 1 \in EventPositions(j, "unsubscribe")
                  /\ trace[k].attrs["listenerId"] = LoggedListenerId(j)

C7_Witness ==
    /\ Len(subs) = 1
    /\ ~subs[1].live
    /\ Len(InputsOf(1, "data")) = 2
    /\ Len(InputsOf(1, "cancel")) = 1
    /\ trace[Len(trace)].msg = ListenerUnsubscribedMsg(subs[1])
    /\ trace[Len(trace) - 1].kind = "unsubscribe"

\* C20: whatever batches, errors and invocations of the handle a
\* subscription gets, it has at most one unsubscribed log, and none of its
\* data received or listener error logs comes after that log.
C20_AsStated ==
    \A j \in DOMAIN subs :
        LET U == SubLogPositions(j, ListenerUnsubscribedMsg(subs[j]))
            D == SubLogPositions(j, ListenerDataMsg(subs[j]))
                     \cup SubLogPositions(j, ListenerErrorMsg(subs[j]))
        IN  /\ Cardinality(U) <= 1
            /\ \A u \in U, k \in D : k < u

-----------------------------------------------------------------------------
(* Several calls and subscriptions in flight at the same time *)

\* how many calls and subscriptions are started
MaxInFlight == 2

ConcTags == {EmptyMap, CollidingTags}

ConcRejections == {Err("fsDenied"), Null}

Started == Len(calls) + Len(subs)

NextConc ==
    \/ /\ Started < MaxInFlight
       /\ \E tags \in ConcTags, callId \in Ids :
             CallInstrumentCall("Add Doc", Obj("milk"), tags, callId)
    \/ /\ Started < MaxInFlight
       /\ \E customTags \in ConcTags, callId \in Ids :
             CallLogged("getDocs", Args("todos", "", Undef, TRUE), customTags, FALSE, callId)
    \/ /\ Started < MaxInFlight
       /\ \E customTags \in ConcTags, uniqueId \in Ids :
             loggedOnSnapshot("todos", FALSE, customTags, uniqueId)
    \/ \E i \in DOMAIN calls : Resolve(i, Obj("doc42"))
    \/ \E i \in DOMAIN calls, error \in ConcRejections : Reject(i, error)
    \/ \E i \in DOMAIN calls : AwaitReturns(i)
    \/ \E i \in DOMAIN calls : AwaitThrows(i)

SpecConc == Init /\ [][NextConc]_vars

TerminalPositions(i) == LogPositions(i, "Success") \cup LogPositions(i, "Failed")

\* C13: with several calls in flight and their promises settling in any
\* order, every call's Initiated log comes before its Success or Failed log,
\* a call has at most one of these, a Success log belongs to a call whose own
\* promise resolved and a Failed log to one whose own promise rejected, and
\* the terminal log carries the callId of the call's own Initiated log.
C13_OwnTriple ==
    \A i \in DOMAIN calls :
        /\ Cardinality(TerminalPositions(i)) <= 1
        /\ \A b \in TerminalPositions(i) :
              /\ Cardinality(LogPositions(i, "Initiated")) = 1
              /\ \A a \in LogPositions(i, "Initiated") : a < b
              /\ trace[b].attrs["callId"] = TheLog(i, "Initiated").attrs["callId"]
        /\ LogPositions(i, "Success") # {} => calls[i].promise = "resolved"
        /\ LogPositions(i, "Failed") # {} => calls[i].promise = "rejected"

\* two calls with different callIds in flight together, settled in the
\* opposite order of their start
C13_Witness ==
    /\ Len(calls) = 2
    /\ calls[1].promise = "rejected"
    /\ calls[2].promise = "resolved"
    /\ \E a1 \in LogPositions(1, "Initiated"), a2 \in LogPositions(2, "Initiated"),
          b2 \in LogPositions(2, "Success"), b1 \in LogPositions(1, "Failed") :
          /\ a1 < a2 /\ a2 < b2 /\ b2 < b1
          /\ trace[a1].attrs["callId"] # trace[a2].attrs["callId"]

\* the callIds on the logs of call i; the listenerIds on the logs of
\* subscription j
CallIdsOf(i) == {trace[k].attrs["callId"] : k \in {n \in DOMAIN trace :
                     IsLog(trace[n]) /\ trace[n].src = i}}

ListenerIdsOf(j) == {trace[k].attrs["listenerId"] : k \in {n \in DOMAIN trace :
                         IsLog(trace[n]) /\ trace[n].src = SubSrc(j)}}

\* C17: two distinct calls awaiting their promises at the same time have no
\* callId in common on their logs, and two distinct live subscriptions no
\* listenerId, whatever the caller's tags hold.
C17_AsStated ==
    /\ \A i, j \in DOMAIN calls :
          (i # j /\ calls[i].pc = "awaiting" /\ calls[j].pc = "awaiting") =>
              CallIdsOf(i) \cap CallIdsOf(j) = {}
    /\ \A i, j \in DOMAIN subs :
          (i # j /\ subs[i].live /\ subs[j].live) =>
              ListenerIdsOf(i) \cap ListenerIdsOf(j) = {}

=============================================================================
